---- MODULE Spec2Model ----
(***************************************************************************)
(* Model of wheel-lib (src/index.js): a catalog of helper functions over   *)
(* text, arrays, objects, numbers and dates.                               *)
(*                                                                         *)
(* Every helper is a function of its arguments, so a behaviour is one      *)
(* call: Init draws the arguments, the action of the helper runs its body  *)
(* and leaves the returned value (or the thrown error) in ret.  Objects    *)
(* that the code can alias or write into (records given to merge, Date     *)
(* objects) live in heap and are passed by reference.  toRoman's loop is   *)
(* modelled step by step.                                                  *)
(*                                                                         *)
(* JavaScript strings are sequences of one-character strings.              *)
(***************************************************************************)
EXTENDS Integers, Sequences, FiniteSets

VARIABLES
    fn,      \* the helper being called
    pc,      \* "call" before the body has run, "done" after; "loop" inside toRoman
    args,    \* the arguments of the call
    heap,    \* the object store: reference -> object
    locals,  \* local variables of a body that runs in several steps (toRoman)
    ret      \* completion of the call: [threw, value]

vars == <<fn, pc, args, heap, locals, ret>>

NoHeap == <<>>
NoLocals == <<>>
NoRet == [threw |-> FALSE, value |-> <<>>]

Return(v) == [threw |-> FALSE, value |-> v]
Throw(msg) == [threw |-> TRUE, value |-> <<>>, error |-> msg]

Min(a, b) == IF a < b THEN a ELSE b
Max(a, b) == IF a > b THEN a ELSE b

(***************************************************************************)
(* ArrayUtils.chunk                                                        *)
(***************************************************************************)
MaxChunkLen == 6
MaxChunkSize == 4
MinChunkSize == 2   \* sizes are drawn from -MinChunkSize..MaxChunkSize
ChunkItems == {"p", "q"}

ChunkSizeError == "Chunk size must be greater than 0"
RangeError == "Invalid array length"

\* Array.prototype.slice(start, end) for start, end >= 0: the elements at the
\* 0-based indices start .. end-1, both clamped to the length.
Slice(arr, start, end) ==
    LET from == Min(start, Len(arr))
        to == Min(end, Len(arr))
    IN  IF to <= from THEN <<>> ELSE SubSeq(arr, from + 1, to)

\* The values Math.ceil(a / b) takes for integers a >= 0 and b: a quotient,
\* or Infinity / NaN when b is 0.
Infinity == [inf |-> TRUE]
NaN == [nan |-> TRUE]
Num(n) == [n |-> n]

MathCeilDiv_Floor(a, b) ==
    IF b = 0 THEN (IF a = 0 THEN NaN ELSE Infinity)
    ELSE IF b > 0 THEN Num(a \div b)
    ELSE Num(-(a \div (-b)))

MathCeilDiv(a, b) ==
    IF b = 0 THEN (IF a = 0 THEN NaN ELSE Infinity)
    ELSE IF b > 0 THEN Num(IF a % b = 0 THEN a \div b ELSE (a \div b) + 1)
    ELSE Num(-(a \div (-b)))

ChunkSizeInvalid_Negative(size) == size < 0

ChunkSizeInvalid(size) == size <= 0

\* Array.from({ length }, mapFn): length NaN or negative gives [], Infinity
\* cannot be allocated.
ArrayFrom(length, arr, size) ==
    IF length = Infinity THEN Throw(RangeError)
    ELSE IF length = NaN THEN Return(<<>>)
    ELSE Return([i \in 1..Max(length.n, 0) |->
                    Slice(arr, (i - 1) * size, (i - 1) * size + size)])

chunk(arr, size) ==
    IF ChunkSizeInvalid(size) THEN Throw(ChunkSizeError)
    ELSE ArrayFrom(MathCeilDiv(Len(arr), size), arr, size)

SeqsUpTo(S, n) == UNION {[1..k -> S] : k \in 0..n}

InitChunk ==
    /\ fn = "chunk"
    /\ pc = "call"
    /\ \E arr \in SeqsUpTo(ChunkItems, MaxChunkLen), size \in (-MinChunkSize)..MaxChunkSize :
          args = [arr |-> arr, size |-> size]
    /\ heap = NoHeap
    /\ locals = NoLocals
    /\ ret = NoRet

CallChunk ==
    /\ fn = "chunk"
    /\ pc = "call"
    /\ ret' = chunk(args.arr, args.size)
    /\ pc' = "done"
    /\ UNCHANGED <<fn, args, heap, locals>>

NextChunk == CallChunk

SpecChunk == InitChunk /\ [][NextChunk]_vars

ChunkDone == fn = "chunk" /\ pc = "done"

RECURSIVE Concat(_)
Concat(ss) == IF ss = <<>> THEN <<>> ELSE Head(ss) \o Concat(Tail(ss))

\* C3: for every sequence s and every integer k > 0, chunk(s, k) returns
\* ceil(len(s)/k) chunks (the least m with m*k >= len(s)) whose concatenation in
\* order is s; every chunk but the last has length k, the last has length in
\* 1..k, and an empty s yields no chunks.
C3_ChunkPartition ==
    (ChunkDone /\ args.size > 0) =>
        LET s == args.arr
            k == args.size
            cs == ret.value
            m == Len(cs)
        IN  /\ ~ret.threw
            /\ m * k >= Len(s)
            /\ (m > 0 => (m - 1) * k < Len(s))
            /\ Concat(cs) = s
            /\ \A i \in 1..m : IF i < m THEN Len(cs[i]) = k
                                ELSE Len(cs[i]) >= 1 /\ Len(cs[i]) <= k
            /\ (s = <<>> => cs = <<>>)

C3_Witness ==
    /\ ChunkDone
    /\ args.size = 2
    /\ Len(args.arr) = 5
    /\ ~ret.threw
    /\ Len(ret.value) = 3
    /\ Len(ret.value[3]) = 1

\* C4: for every sequence s (the empty one too) and every size <= 0, chunk
\* signals the invalid-size error and returns no chunks; for size > 0 it never
\* signals an error.
C4_ChunkThrows ==
    ChunkDone =>
        IF args.size <= 0
        THEN ret.threw /\ ret.error = ChunkSizeError /\ ret.value = <<>>
        ELSE ~ret.threw

C4_Witness ==
    /\ ChunkDone
    /\ args.size = 0
    /\ args.arr = <<>>
    /\ ret.threw

(***************************************************************************)
(* JavaScript values used by the number helpers                            *)
(***************************************************************************)
Undefined == [undef |-> TRUE]
Str(s) == [str |-> s]

\* a || b: a when a is truthy (not undefined, "" or 0), else b.
Truthy(v) == v # Undefined /\ v # Str(<<>>) /\ v # Num(0)
Or(a, b) == IF Truthy(a) THEN a ELSE b

\* The % operator on integers: the result takes the sign of the dividend.
Rem(a, b) == IF a >= 0 THEN a % b ELSE -((-a) % b)

\* arr[i] for an array literal: undefined outside the indices 0 .. length-1
\* (-0 is the index 0).
ArrayGet(arr, i) == IF i >= 0 /\ i < Len(arr) THEN Str(arr[i + 1]) ELSE Undefined

Digits == <<"0", "1", "2", "3", "4", "5", "6", "7", "8", "9">>

\* Number::toString(n) for an integer n.
RECURSIVE DecimalString(_)
DecimalString(n) ==
    IF n < 0 THEN <<"-">> \o DecimalString(-n)
    ELSE IF n < 10 THEN <<Digits[n + 1]>>
    ELSE DecimalString(n \div 10) \o <<Digits[(n % 10) + 1]>>

DigitValue(c) == CHOOSE d \in 0..9 : Digits[d + 1] = c

\* The number a text of decimal digits denotes.
RECURSIVE ParseDecimal(_)
ParseDecimal(s) ==
    IF s = <<>> THEN 0
    ELSE 10 * ParseDecimal(SubSeq(s, 1, Len(s) - 1)) + DigitValue(s[Len(s)])

(***************************************************************************)
(* NumberUtils.toOrdinal                                                   *)
(***************************************************************************)
MaxOrdinal == 230

suffixes == <<<<"t", "h">>, <<"s", "t">>, <<"n", "d">>, <<"r", "d">>>>

OrdinalSuffix_NoTeens(num) ==
    LET value == Rem(num, 100)
    IN  Or(ArrayGet(suffixes, Rem(value, 10)), ArrayGet(suffixes, 0)).str

OrdinalSuffix(num) ==
    LET value == Rem(num, 100)
    IN  Or(Or(ArrayGet(suffixes, Rem(value - 20, 10)), ArrayGet(suffixes, value)),
           ArrayGet(suffixes, 0)).str

toOrdinal(num) == DecimalString(num) \o OrdinalSuffix(num)

InitOrdinal ==
    /\ fn = "toOrdinal"
    /\ pc = "call"
    /\ \E n \in 0..MaxOrdinal : args = [num |-> n]
    /\ heap = NoHeap
    /\ locals = NoLocals
    /\ ret = NoRet

CallOrdinal ==
    /\ fn = "toOrdinal"
    /\ pc = "call"
    /\ ret' = Return(toOrdinal(args.num))
    /\ pc' = "done"
    /\ UNCHANGED <<fn, args, heap, locals>>

NextOrdinal == CallOrdinal

SpecOrdinal == InitOrdinal /\ [][NextOrdinal]_vars

OrdinalDone == fn = "toOrdinal" /\ pc = "done"

IsDecimalText(s, n) ==
    /\ Len(s) >= 1
    /\ \A i \in 1..Len(s) : \E d \in 0..9 : Digits[d + 1] = s[i]
    /\ (Len(s) > 1 => s[1] # "0")
    /\ ParseDecimal(s) = n

EnglishSuffix(n) ==
    IF n % 100 \in {11, 12, 13} THEN <<"t", "h">>
    ELSE IF n % 10 = 1 THEN <<"s", "t">>
    ELSE IF n % 10 = 2 THEN <<"n", "d">>
    ELSE IF n % 10 = 3 THEN <<"r", "d">>
    ELSE <<"t", "h">>

\* C6: for every integer n >= 0, toOrdinal(n) is the decimal text of n followed
\* by "th" when n mod 100 is 11, 12 or 13, otherwise "st"/"nd"/"rd" when n mod 10
\* is 1/2/3, and "th" in every other case (n mod 10 = 0 and n = 0 included).
C6_Ordinal ==
    OrdinalDone =>
        LET n == args.num
            r == ret.value
        IN  /\ ~ret.threw
            /\ Len(r) >= 3
            /\ IsDecimalText(SubSeq(r, 1, Len(r) - 2), n)
            /\ SubSeq(r, Len(r) - 1, Len(r)) = EnglishSuffix(n)

C6_Witness ==
    /\ OrdinalDone
    /\ args.num = 112
    /\ ret.value = <<"1", "1", "2", "t", "h">>

(***************************************************************************)
(* NumberUtils.toRoman, one step per loop iteration                        *)
(***************************************************************************)
MaxRoman == 4100
MinRoman == 3   \* arguments are drawn from -MinRoman..MaxRoman

romanNumerals_NoIV ==
    << [letter |-> <<"M">>, value |-> 1000], [letter |-> <<"C", "M">>, value |-> 900],
       [letter |-> <<"D">>, value |-> 500],  [letter |-> <<"C", "D">>, value |-> 400],
       [letter |-> <<"C">>, value |-> 100],  [letter |-> <<"X", "C">>, value |-> 90],
       [letter |-> <<"L">>, value |-> 50],   [letter |-> <<"X", "L">>, value |-> 40],
       [letter |-> <<"X">>, value |-> 10],   [letter |-> <<"I", "X">>, value |-> 9],
       [letter |-> <<"V">>, value |-> 5],    [letter |-> <<"I">>, value |-> 1],
       [letter |-> <<"I">>, value |-> 1] >>

romanNumerals ==
    << [letter |-> <<"M">>, value |-> 1000], [letter |-> <<"C", "M">>, value |-> 900],
       [letter |-> <<"D">>, value |-> 500],  [letter |-> <<"C", "D">>, value |-> 400],
       [letter |-> <<"C">>, value |-> 100],  [letter |-> <<"X", "C">>, value |-> 90],
       [letter |-> <<"L">>, value |-> 50],   [letter |-> <<"X", "L">>, value |-> 40],
       [letter |-> <<"X">>, value |-> 10],   [letter |-> <<"I", "X">>, value |-> 9],
       [letter |-> <<"V">>, value |-> 5],    [letter |-> <<"I", "V">>, value |-> 4],
       [letter |-> <<"I">>, value |-> 1] >>

InitRoman ==
    /\ fn = "toRoman"
    /\ pc = "call"
    /\ \E n \in (-MinRoman)..MaxRoman : args = [num |-> n]
    /\ heap = NoHeap
    /\ locals = NoLocals
    /\ ret = NoRet

\* if (num <= 0) return "";
RomanReturnEmpty ==
    /\ fn = "toRoman"
    /\ pc = "call"
    /\ args.num <= 0
    /\ ret' = Return(<<>>)
    /\ pc' = "done"
    /\ UNCHANGED <<fn, args, heap, locals>>

\* romanNumerals.reduce(..., ""): the callback is about to run on entry 1.
RomanEnterReduce ==
    /\ fn = "toRoman"
    /\ pc = "call"
    /\ args.num > 0
    /\ locals' = [num |-> args.num, result |-> <<>>, i |-> 1]
    /\ pc' = "loop"
    /\ UNCHANGED <<fn, args, heap, ret>>

\* while (num >= value) { result += letter; num -= value; }
RomanWhileBody ==
    /\ fn = "toRoman"
    /\ pc = "loop"
    /\ locals.i <= Len(romanNumerals)
    /\ locals.num >= romanNumerals[locals.i].value
    /\ locals' = [locals EXCEPT !.result = @ \o romanNumerals[locals.i].letter,
                                !.num = @ - romanNumerals[locals.i].value]
    /\ UNCHANGED <<fn, pc, args, heap, ret>>

\* The while condition is false: the callback returns result and reduce moves
\* to the next entry.
RomanNextEntry ==
    /\ fn = "toRoman"
    /\ pc = "loop"
    /\ locals.i <= Len(romanNumerals)
    /\ locals.num < romanNumerals[locals.i].value
    /\ locals' = [locals EXCEPT !.i = @ + 1]
    /\ UNCHANGED <<fn, pc, args, heap, ret>>

\* reduce has visited every entry: toRoman returns the accumulated result.
RomanReturn ==
    /\ fn = "toRoman"
    /\ pc = "loop"
    /\ locals.i > Len(romanNumerals)
    /\ ret' = Return(locals.result)
    /\ pc' = "done"
    /\ UNCHANGED <<fn, args, heap, locals>>

NextRoman ==
    \/ RomanReturnEmpty
    \/ RomanEnterReduce
    \/ RomanWhileBody
    \/ RomanNextEntry
    \/ RomanReturn

\* The body is straight-line synchronous code: a step that can run does run.
SpecRoman == InitRoman /\ [][NextRoman]_vars /\ WF_vars(NextRoman)

RomanDone == fn = "toRoman" /\ pc = "done"

\* The table the claim names, as (symbol, value) pairs in table order.
RomanTable ==
    << <<"M">>, <<"C", "M">>, <<"D">>, <<"C", "D">>, <<"C">>, <<"X", "C">>, <<"L">>,
       <<"X", "L">>, <<"X">>, <<"I", "X">>, <<"V">>, <<"I", "V">>, <<"I">> >>
RomanTableValue == <<1000, 900, 500, 400, 100, 90, 50, 40, 10, 9, 5, 4, 1>>

\* The text split into table symbols, as table positions; a two-letter symbol
\* is read before a one-letter one.
RECURSIVE RomanSymbols(_)
RomanSymbols(s) ==
    IF s = <<>> THEN <<>>
    ELSE IF Len(s) >= 2 /\ \E j \in 1..13 : RomanTable[j] = SubSeq(s, 1, 2)
         THEN <<CHOOSE j \in 1..13 : RomanTable[j] = SubSeq(s, 1, 2)>>
                  \o RomanSymbols(SubSeq(s, 3, Len(s)))
         ELSE <<CHOOSE j \in 1..13 : RomanTable[j] = <<s[1]>> >>
                  \o RomanSymbols(Tail(s))

RECURSIVE RomanSum(_)
RomanSum(js) == IF js = <<>> THEN 0 ELSE RomanTableValue[Head(js)] + RomanSum(Tail(js))

RECURSIVE Repeat(_, _)
Repeat(s, k) == IF k <= 0 THEN <<>> ELSE s \o Repeat(s, k - 1)

\* The standard numeral of 1..3999, digit by digit.
RomanDigit(d, one, five, ten) ==
    CASE d = 9 -> one \o ten
      [] d >= 5 /\ d < 9 -> five \o Repeat(one, d - 5)
      [] d = 4 -> one \o five
      [] OTHER -> Repeat(one, d)

StandardRoman(n) ==
    Repeat(<<"M">>, n \div 1000)
        \o RomanDigit((n \div 100) % 10, <<"C">>, <<"D">>, <<"M">>)
        \o RomanDigit((n \div 10) % 10, <<"X">>, <<"L">>, <<"C">>)
        \o RomanDigit(n % 10, <<"I">>, <<"V">>, <<"X">>)

\* The greedy decomposition: each table entry is used as often as it fits in
\* what the earlier entries left.
RECURSIVE GreedyFrom(_, _)
GreedyFrom(n, j) ==
    IF j > 13 THEN <<>>
    ELSE Repeat(<<j>>, n \div RomanTableValue[j]) \o GreedyFrom(n % RomanTableValue[j], j + 1)

RomanResultOk ==
    RomanDone =>
        LET n == args.num
            r == ret.value
            js == RomanSymbols(r)
        IN  /\ ~ret.threw
            /\ (n <= 0 => r = <<>>)
            /\ (n > 0 =>
                  /\ js = GreedyFrom(n, 1)
                  /\ \A i \in 1..(Len(js) - 1) : js[i] <= js[i + 1]
                  /\ RomanSum(js) = n)
            /\ (n >= 1 /\ n <= 3999 => r = StandardRoman(n))

\* C7: for every integer n, toRoman(n) terminates; it returns the empty string
\* when n <= 0, and when n > 0 the greedy decomposition over the table: symbols
\* in table order, values summing to n, and for 1 <= n <= 3999 the standard
\* numeral.
C7_Roman == []RomanResultOk /\ <>RomanDone

C7_Witness ==
    /\ RomanDone
    /\ args.num = 1994
    /\ ret.value = <<"M", "C", "M", "X", "C", "I", "V">>

(***************************************************************************)
(* ArrayUtils.groupBy                                                      *)
(*                                                                         *)
(* The accumulator is an ordinary object: its properties are kept in the   *)
(* order they were created, and are listed (Object.keys, for-in, JSON)     *)
(* with the array-index keys first, in ascending numeric order, followed   *)
(* by the other string keys in creation order.                             *)
(***************************************************************************)
MaxGroupLen == 3
GroupItems == {"x", "y", "z"}

\* The values the callback may return: numbers and strings.
Constructor == <<"c", "o", "n", "s", "t", "r", "u", "c", "t", "o", "r">>
GroupKeyValues ==
    {Num(2), Num(10), Str(<<"2">>), Str(<<"a">>), Str(<<"0", "1">>), Str(Constructor)}

IsNum(v) == DOMAIN v = {"n"}

\* ToPropertyKey: a number is converted to its decimal text, a string is
\* itself.
ToPropertyKey(v) == IF IsNum(v) THEN DecimalString(v.n) ELSE v.str

IsDigits(key) ==
    /\ key # <<>>
    /\ \A i \in 1..Len(key) : \E d \in 0..9 : Digits[d + 1] = key[i]

\* An array index: the canonical decimal text of an integer >= 0.
IsArrayIndex(key) == IsDigits(key) /\ DecimalString(ParseDecimal(key)) = key

HasOwn(obj, key) == \E i \in 1..Len(obj) : obj[i].key = key
GetOwn(obj, key) == obj[CHOOSE i \in 1..Len(obj) : obj[i].key = key].value

\* obj[key] = value: an existing property keeps its place, a new one is
\* created last.
PutOwn(obj, key, value) ==
    IF HasOwn(obj, key)
    THEN [i \in 1..Len(obj) |-> IF obj[i].key = key THEN [obj[i] EXCEPT !.value = value]
                                 ELSE obj[i]]
    ELSE Append(obj, [key |-> key, value |-> value])

IsIndexProperty(p) == IsArrayIndex(p.key)
IsNameProperty(p) == ~IsArrayIndex(p.key)

\* The sequence ps of array-index properties sorted by ascending index.
RECURSIVE SortByIndex(_)
SortByIndex(ps) ==
    IF ps = <<>> THEN <<>>
    ELSE LET m == CHOOSE i \in 1..Len(ps) :
                      \A j \in 1..Len(ps) : ParseDecimal(ps[i].key) <= ParseDecimal(ps[j].key)
         IN  <<ps[m]>> \o SortByIndex(SubSeq(ps, 1, m - 1) \o SubSeq(ps, m + 1, Len(ps)))

\* OrdinaryOwnPropertyKeys, as the properties in listing order.
OwnProperties(obj) ==
    SortByIndex(SelectSeq(obj, IsIndexProperty)) \o SelectSeq(obj, IsNameProperty)

OwnKeys(obj) == [i \in 1..Len(obj) |-> OwnProperties(obj)[i].key]

\* Property values of the accumulator: arrays, and the functions it inherits.
Arr(items) == [arr |-> items]
IsArr(v) == DOMAIN v = {"arr"}
ObjectFunction == [function |-> "Object"]
PushError == "push is not a function"

\* The properties every object inherits from Object.prototype (one of them).
InheritedNames == {Constructor}

\* obj[key]: an own property, else one inherited from Object.prototype.
Get(obj, key) ==
    IF HasOwn(obj, key) THEN GetOwn(obj, key)
    ELSE IF key \in InheritedNames THEN ObjectFunction
    ELSE Undefined

\* The reduce callback: (acc[key] = acc[key] || []).push(item); return acc.
\* Calling push on a value that has none throws.
GroupStep(acc, item, callback) ==
    LET key == ToPropertyKey(callback[item])
        list == Or(Get(acc, key), Arr(<<>>))
    IN  IF IsArr(list) THEN Return(PutOwn(acc, key, Arr(Append(list.arr, item))))
        ELSE Throw(PushError)

RECURSIVE Reduce(_, _, _)
Reduce(acc, arr, callback) ==
    IF arr = <<>> THEN Return(acc)
    ELSE LET step == GroupStep(acc, Head(arr), callback)
         IN  IF step.threw THEN step ELSE Reduce(step.value, Tail(arr), callback)

groupBy(arr, callback) == Reduce(<<>>, arr, callback)

InitGroupBy ==
    /\ fn = "groupBy"
    /\ pc = "call"
    /\ \E arr \in SeqsUpTo(GroupItems, MaxGroupLen), callback \in [GroupItems -> GroupKeyValues] :
          args = [arr |-> arr, callback |-> callback]
    /\ heap = NoHeap
    /\ locals = NoLocals
    /\ ret = NoRet

\* The returned object is observed as its properties in listing order.
CallGroupBy ==
    /\ fn = "groupBy"
    /\ pc = "call"
    /\ LET r == groupBy(args.arr, args.callback)
       IN  ret' = IF r.threw THEN r ELSE Return(OwnProperties(r.value))
    /\ pc' = "done"
    /\ UNCHANGED <<fn, args, heap, locals>>

NextGroupBy == CallGroupBy

SpecGroupBy == InitGroupBy /\ [][NextGroupBy]_vars

GroupByDone == fn = "groupBy" /\ pc = "done"

KeyOf(item) == ToPropertyKey(args.callback[item])

\* The keys of the elements of arr, each once, in the order first seen.
RECURSIVE FirstSeenKeys(_, _)
FirstSeenKeys(arr, seen) ==
    IF arr = <<>> THEN <<>>
    ELSE IF KeyOf(Head(arr)) \in seen THEN FirstSeenKeys(Tail(arr), seen)
    ELSE <<KeyOf(Head(arr))>> \o FirstSeenKeys(Tail(arr), seen \cup {KeyOf(Head(arr))})

RECURSIVE ElementsWithKey(_, _)
ElementsWithKey(arr, key) ==
    IF arr = <<>> THEN <<>>
    ELSE (IF KeyOf(Head(arr)) = key THEN <<Head(arr)>> ELSE <<>>)
             \o ElementsWithKey(Tail(arr), key)

ListedKeys == [i \in 1..Len(ret.value) |-> ret.value[i].key]

GroupValuesOk ==
    \A i \in 1..Len(ret.value) :
        ret.value[i].value = Arr(ElementsWithKey(args.arr, ret.value[i].key))

Position(seq, e) == CHOOSE i \in 1..Len(seq) : seq[i] = e

\* C5: for every sequence s and total key function keyFn, groupBy returns a
\* mapping whose keys are exactly the keys keyFn produces on s, listed in the
\* order each is first seen in s (integer-like keys too), and each key's value
\* lists exactly the elements producing it, in their order in s.
C5_FirstSeenOrder ==
    GroupByDone =>
        /\ ~ret.threw
        /\ ListedKeys = FirstSeenKeys(args.arr, {})
        /\ GroupValuesOk

\* What groupBy does give when no key names an inherited property: the keys
\* keyFn produces (as property names), each once, the array indices first in
\* ascending numeric order and the other keys after them in first-seen order;
\* each value lists the elements producing its key, in their order in s.
GroupByListing ==
    (GroupByDone /\ \A i \in 1..Len(args.arr) : KeyOf(args.arr[i]) \notin InheritedNames) =>
        LET ks == ListedKeys
            seen == FirstSeenKeys(args.arr, {})
        IN  /\ ~ret.threw
            /\ {ks[i] : i \in 1..Len(ks)} = {KeyOf(args.arr[i]) : i \in 1..Len(args.arr)}
            /\ \A i, j \in 1..Len(ks) : i < j =>
                  /\ ks[i] # ks[j]
                  /\ (IsArrayIndex(ks[j]) => IsArrayIndex(ks[i]))
                  /\ (IsArrayIndex(ks[i]) /\ IsArrayIndex(ks[j])
                        => ParseDecimal(ks[i]) < ParseDecimal(ks[j]))
                  /\ (~IsArrayIndex(ks[i]) /\ ~IsArrayIndex(ks[j])
                        => Position(seen, ks[i]) < Position(seen, ks[j]))
            /\ GroupValuesOk

\* A key that names an inherited property makes the call throw.
GroupByInheritedThrows ==
    GroupByDone =>
        (ret.threw <=> \E i \in 1..Len(args.arr) : KeyOf(args.arr[i]) \in InheritedNames)

(***************************************************************************)
(* StringUtils.toPascalCase, StringUtils.toCamelCase                       *)
(***************************************************************************)
MaxStrLen == 4
TextChars == {"a", "B", "1", " ", "-"}

LowerLetters == <<"a", "b">>
UpperLetters == <<"A", "B">>

IsLower(c) == \E i \in 1..Len(LowerLetters) : LowerLetters[i] = c
IsUpper(c) == \E i \in 1..Len(UpperLetters) : UpperLetters[i] = c
IsDigit(c) == \E d \in 0..9 : Digits[d + 1] = c
IsWhiteSpace(c) == c = " "

\* The class [a-zA-Z0-9].
IsAlnum(c) == IsLower(c) \/ IsUpper(c) \/ IsDigit(c)

ToLowerChar(c) ==
    IF IsUpper(c) THEN LowerLetters[CHOOSE i \in 1..Len(UpperLetters) : UpperLetters[i] = c]
    ELSE c
ToUpperChar(c) ==
    IF IsLower(c) THEN UpperLetters[CHOOSE i \in 1..Len(LowerLetters) : LowerLetters[i] = c]
    ELSE c

ToLowerCase(s) == [i \in 1..Len(s) |-> ToLowerChar(s[i])]

RECURSIVE TrimStart(_)
TrimStart(s) == IF s # <<>> /\ IsWhiteSpace(Head(s)) THEN TrimStart(Tail(s)) ELSE s
RECURSIVE TrimEnd(_)
TrimEnd(s) ==
    IF s # <<>> /\ IsWhiteSpace(s[Len(s)]) THEN TrimEnd(SubSeq(s, 1, Len(s) - 1)) ELSE s
Trim(s) == TrimEnd(TrimStart(s))

\* The first position >= p of s that holds an alphanumeric character, or
\* Len(s) + 1: where the greedy run [^a-zA-Z0-9]+ starting at p stops.
RECURSIVE RunEnd(_, _)
RunEnd(s, p) == IF p <= Len(s) /\ ~IsAlnum(s[p]) THEN RunEnd(s, p + 1) ELSE p

\* s.replace(/(?:^|[^a-zA-Z0-9]+)([a-zA-Z0-9])/g, (_, letter) => letter.toUpperCase())
\* scanning from position p.  A match at p is either the first character of s
\* when it is alphanumeric (the ^ branch), or a run of non-alphanumerics with
\* the alphanumeric that follows it; a run that reaches the end of s matches
\* nothing, however it is shortened, and its characters are copied.
RECURSIVE ReplaceWordStarts(_, _)
ReplaceWordStarts(s, p) ==
    IF p > Len(s) THEN <<>>
    ELSE IF p = 1 /\ IsAlnum(s[1])
         THEN <<ToUpperChar(s[1])>> \o ReplaceWordStarts(s, 2)
    ELSE IF ~IsAlnum(s[p]) /\ RunEnd(s, p) <= Len(s)
         THEN <<ToUpperChar(s[RunEnd(s, p)])>> \o ReplaceWordStarts(s, RunEnd(s, p) + 1)
    ELSE <<s[p]>> \o ReplaceWordStarts(s, p + 1)

toPascalCase(str) == ReplaceWordStarts(ToLowerCase(Trim(str)), 1)

\* s.replace(/^./, char => char.toLowerCase()): the first character, which the
\* dot matches unless it is a line terminator (no character of TextChars is).
LowerFirst(s) == IF s = <<>> THEN s ELSE <<ToLowerChar(Head(s))>> \o Tail(s)

toCamelCase(str) == LowerFirst(toPascalCase(str))

InitText ==
    /\ fn \in {"toPascalCase", "toCamelCase"}
    /\ pc = "call"
    /\ \E str \in SeqsUpTo(TextChars, MaxStrLen) : args = [str |-> str]
    /\ heap = NoHeap
    /\ locals = NoLocals
    /\ ret = NoRet

CallPascalCase ==
    /\ fn = "toPascalCase"
    /\ pc = "call"
    /\ ret' = Return(toPascalCase(args.str))
    /\ pc' = "done"
    /\ UNCHANGED <<fn, args, heap, locals>>

CallCamelCase ==
    /\ fn = "toCamelCase"
    /\ pc = "call"
    /\ ret' = Return(toCamelCase(args.str))
    /\ pc' = "done"
    /\ UNCHANGED <<fn, args, heap, locals>>

NextText == CallPascalCase \/ CallCamelCase

SpecText == InitText /\ [][NextText]_vars

\* The text t with every non-alphanumeric character dropped, and the first
\* character and each character that follows a dropped one uppercased.
ClaimedPascal(t) ==
    LET Keep(i) == IF i = 1 \/ ~IsAlnum(t[i - 1]) THEN ToUpperChar(t[i]) ELSE t[i]
        F[i \in 0..Len(t)] ==
            IF i = 0 THEN <<>>
            ELSE IF IsAlnum(t[i]) THEN Append(F[i - 1], Keep(i)) ELSE F[i - 1]
    IN  F[Len(t)]

\* The run of non-alphanumeric characters that ends t.
RECURSIVE TrailingRun(_)
TrailingRun(t) ==
    IF t = <<>> \/ IsAlnum(t[Len(t)]) THEN <<>>
    ELSE TrailingRun(SubSeq(t, 1, Len(t) - 1)) \o <<t[Len(t)]>>

\* What toPascalCase does give: the claimed text, followed by the run of
\* non-alphanumeric characters that ends the trimmed text, which is kept.
PascalKeepsTrailingRun ==
    (fn = "toPascalCase" /\ pc = "done") =>
        LET t == ToLowerCase(Trim(args.str))
        IN  ret.value = ClaimedPascal(t) \o TrailingRun(t)

\* C10: toPascalCase(s) is the trimmed, lowercased s with every run of
\* non-alphanumeric characters dropped (a run at the end too) and the first
\* character and each character after a dropped run uppercased; toCamelCase(s)
\* is toPascalCase(s) with its first character lowercased.
C10_PascalCamel ==
    /\ (fn = "toPascalCase" /\ pc = "done"
          => ret.value = ClaimedPascal(ToLowerCase(Trim(args.str))))
    /\ (fn = "toCamelCase" /\ pc = "done"
          => ret.value = LowerFirst(toPascalCase(args.str)))

(***************************************************************************)
(* DateUtils.addDays, DateUtils.startOfWeek, DateUtils.endOfWeek           *)
(*                                                                         *)
(* A Date object holds a time value, an instant counted from the epoch     *)
(* (1970-01-01T00:00 UTC); only whole-hour instants are modelled, so time  *)
(* values count hours.  getDate, getDay and setDate work on local time,    *)
(* which depends on the time zone of the process: the zone is an input of  *)
(* the model.  Date objects live in heap and are passed by reference.      *)
(***************************************************************************)
DateWindowStart == 19716   \* first local day drawn: 2023-12-25
DateWindowDays == 79       \* ... and the number of days drawn, up to 2024-03-12
MaxAddDays == 31           \* days are drawn from -MaxAddDays..MaxAddDays
DateHours == {2, 12}       \* local hours of the day drawn

HoursPerDay == 24

\* A zone: the offset from UTC (hours) before and from a transition instant.
\* Fixed keeps one offset; NewYork puts its clocks forward from 02:00 to 03:00
\* on 2024-03-10 (07:00 UTC).
FixedZone == [transition |-> 0, before |-> 1, after |-> 1]
NewYork == [transition |-> 19792 * 24 + 7, before |-> -5, after |-> -4]
Zones == {FixedZone, NewYork}

\* LocalTime(t): the local time value of the instant t.
LocalTime(zone, t) ==
    IF t < zone.transition THEN t + zone.before ELSE t + zone.after

\* UTC(tlocal): the instant of a local time value.  A local time that a
\* forward transition skips, or that a backward transition repeats, is read
\* with the offset in force before the transition.
UTC(zone, tlocal) ==
    IF tlocal - zone.before < zone.transition THEN tlocal - zone.before
    ELSE IF tlocal - zone.after < zone.transition THEN tlocal - zone.before
    ELSE tlocal - zone.after

Day(t) == t \div HoursPerDay
TimeWithinDay(t) == t % HoursPerDay

DayFromYear(y) ==
    365 * (y - 1970) + ((y - 1969) \div 4) - ((y - 1901) \div 100) + ((y - 1601) \div 400)

DaysInYear(y) == DayFromYear(y + 1) - DayFromYear(y)

\* The year of a day >= 0: the largest y with DayFromYear(y) <= day.
YearFromDay(day) ==
    CHOOSE y \in (1970 + day \div 366)..(1970 + day \div 365) :
        DayFromYear(y) <= day /\ day < DayFromYear(y + 1)

\* Days of month m (0 = January) of year y.
DaysInMonth(y, m) ==
    IF m = 1 THEN (IF DaysInYear(y) = 366 THEN 29 ELSE 28)
    ELSE IF m \in {3, 5, 8, 10} THEN 30
    ELSE 31

\* The day number of the first day of month m (0..11) of year y.
RECURSIVE DayFromMonth(_, _)
DayFromMonth(y, m) ==
    IF m = 0 THEN DayFromYear(y) ELSE DayFromMonth(y, m - 1) + DaysInMonth(y, m - 1)

MonthFromDay(day) ==
    LET y == YearFromDay(day)
    IN  CHOOSE m \in 0..11 :
            DayFromMonth(y, m) <= day /\ day < DayFromMonth(y, m) + DaysInMonth(y, m)

DateFromDay(day) == day - DayFromMonth(YearFromDay(day), MonthFromDay(day)) + 1

\* The day of the week of a day number: 0 = Sunday; the epoch was a Thursday.
WeekDay(day) == (day + 4) % 7

\* MakeDay(year, month, date) for a month in 0..11: the date counts on from
\* the first of the month, whatever its size or sign.
MakeDay(year, month, date) == DayFromMonth(year, month) + date - 1

\* Date.prototype.getDate / getDay of the Date object at ref.
GetDate(h, zone, ref) == DateFromDay(Day(LocalTime(zone, h[ref].t)))
GetDay(h, zone, ref) == WeekDay(Day(LocalTime(zone, h[ref].t)))

\* Date.prototype.setDate(date): the heap with the object at ref updated.
SetDate(h, zone, ref, date) ==
    LET tlocal == LocalTime(zone, h[ref].t)
        day == Day(tlocal)
        newDate == MakeDay(YearFromDay(day), MonthFromDay(day), date) * HoursPerDay
                       + TimeWithinDay(tlocal)
    IN  [h EXCEPT ![ref] = [t |-> UTC(zone, newDate)]]

\* new Date(date): a fresh object holding the same time value.
NewDate(h, ref) == [heap |-> Append(h, [t |-> h[ref].t]), ref |-> Len(h) + 1]

addDays(h, zone, date, days) ==
    LET n == NewDate(h, date)
    IN  [heap |-> SetDate(n.heap, zone, n.ref, GetDate(n.heap, zone, date) + days),
         value |-> n.ref]

startOfWeek_Monday(h, zone, date) ==
    LET n == NewDate(h, date)
        day == GetDay(n.heap, zone, n.ref)
    IN  [heap |-> SetDate(n.heap, zone, n.ref, GetDate(n.heap, zone, n.ref) - day + 1),
         value |-> n.ref]

startOfWeek(h, zone, date) ==
    LET n == NewDate(h, date)
        day == GetDay(n.heap, zone, n.ref)
    IN  [heap |-> SetDate(n.heap, zone, n.ref, GetDate(n.heap, zone, n.ref) - day),
         value |-> n.ref]

endOfWeek(h, zone, date) ==
    LET n == NewDate(h, date)
        day == GetDay(n.heap, zone, n.ref)
    IN  [heap |-> SetDate(n.heap, zone, n.ref, GetDate(n.heap, zone, n.ref) + (6 - day)),
         value |-> n.ref]

\* The Date objects drawn: hour h of local day d, in the zone of the process.
DateInputs(zone) ==
    {UTC(zone, d * HoursPerDay + h) :
        d \in DateWindowStart..(DateWindowStart + DateWindowDays - 1), h \in DateHours}

\* --- addDays(addDays(d, n), -n) ---
InitAddDays ==
    /\ fn = "addDays"
    /\ pc = "call"
    /\ \E zone \in Zones :
        \E t \in DateInputs(zone), n \in (-MaxAddDays)..MaxAddDays :
          /\ args = [zone |-> zone, date |-> 1, time |-> t, days |-> n]
          /\ heap = <<[t |-> t]>>
    /\ locals = NoLocals
    /\ ret = NoRet

\* const there = addDays(d, n)
CallAddDays ==
    /\ fn = "addDays"
    /\ pc = "call"
    /\ LET r == addDays(heap, args.zone, args.date, args.days)
       IN  /\ heap' = r.heap
           /\ locals' = [there |-> r.value]
    /\ pc' = "back"
    /\ UNCHANGED <<fn, args, ret>>

\* return addDays(there, -n)
CallAddDaysBack ==
    /\ fn = "addDays"
    /\ pc = "back"
    /\ LET r == addDays(heap, args.zone, locals.there, -args.days)
       IN  /\ heap' = r.heap
           /\ ret' = Return(r.value)
    /\ pc' = "done"
    /\ UNCHANGED <<fn, args, locals>>

NextAddDays == CallAddDays \/ CallAddDaysBack

SpecAddDays == InitAddDays /\ [][NextAddDays]_vars

\* C8: for every date d and every integer n, addDays(addDays(d, n), -n) equals
\* d, also across month and year boundaries and leap days; addDays returns a
\* new date value and leaves its input unchanged.  (args.time is the time
\* value d held when the call was made.)
C8_AddDaysRoundTrip ==
    fn = "addDays" =>
        /\ heap[args.date].t = args.time
        /\ (pc = "back" => locals.there # args.date)
        /\ (pc = "done" =>
              /\ ret.value \notin {args.date, locals.there}
              /\ heap[ret.value].t = args.time)

\* What does hold: the round trip in a zone whose offset never changes, and
\* in every zone the local calendar day of the round trip.
AddDaysRoundTripNoTransition ==
    (fn = "addDays" /\ args.zone.before = args.zone.after) => C8_AddDaysRoundTrip

AddDaysCalendarDay ==
    fn = "addDays" =>
        LET d == Day(LocalTime(args.zone, args.time))
        IN  /\ (pc \in {"back", "done"} =>
                  Day(LocalTime(args.zone, heap[locals.there].t)) = d + args.days)
            /\ (pc = "done" => Day(LocalTime(args.zone, heap[ret.value].t)) = d)

\* --- startOfWeek(d), then endOfWeek(d) ---
InitWeek ==
    /\ fn = "week"
    /\ pc = "call"
    /\ \E zone \in Zones :
        \E t \in DateInputs(zone) :
          /\ args = [zone |-> zone, date |-> 1, time |-> t]
          /\ heap = <<[t |-> t]>>
    /\ locals = NoLocals
    /\ ret = NoRet

\* const start = startOfWeek(d)
CallStartOfWeek ==
    /\ fn = "week"
    /\ pc = "call"
    /\ LET r == startOfWeek(heap, args.zone, args.date)
       IN  /\ heap' = r.heap
           /\ locals' = [start |-> r.value]
    /\ pc' = "end"
    /\ UNCHANGED <<fn, args, ret>>

\* return endOfWeek(d)
CallEndOfWeek ==
    /\ fn = "week"
    /\ pc = "end"
    /\ LET r == endOfWeek(heap, args.zone, args.date)
       IN  /\ heap' = r.heap
           /\ ret' = Return(r.value)
    /\ pc' = "done"
    /\ UNCHANGED <<fn, args, locals>>

NextWeek == CallStartOfWeek \/ CallEndOfWeek

SpecWeek == InitWeek /\ [][NextWeek]_vars

\* The local calendar day (as a day number) of the Date object at ref.
LocalDay(ref) == Day(LocalTime(args.zone, heap[ref].t))

\* The day of the week of a day number, counted from a known Sunday
\* (1970-01-04, day 3).
DayOfWeek(day) == (day - 3) % 7

MaxMergeDepth == 2
MergeKeys == << <<"x">>, <<"y">> >>
MergePrimitives == {Num(0), Num(1)}

Ref(a) == [ref |-> a]
IsRef(v) == DOMAIN v = {"ref"}

\* target[key] for a target that is a reference or a primitive: a number has
\* no such property.
GetProp(h, target, key) ==
    IF IsRef(target) THEN Get(h[target.ref], key) ELSE Undefined

\* target[key] = value: on a number the assignment is dropped (the module is
\* not in strict mode).
SetProp(h, target, key, value) ==
    IF IsRef(target) THEN [h EXCEPT ![target.ref] = PutOwn(@, key, value)]
    ELSE h

\* mergeDeep(target, source): [heap, value] after the call.  MergeEach runs
\* the for-in loop over the keys still to visit.
RECURSIVE mergeDeep(_, _, _), MergeEach(_, _, _, _)
MergeEach(h, target, source, keys) ==
    IF keys = <<>> THEN [heap |-> h, value |-> target]
    ELSE
        LET key == Head(keys)
            sv == GetProp(h, source, key)
        IN  IF Truthy(sv) /\ IsRef(sv)
            THEN LET tv == GetProp(h, target, key)
                     fresh == ~Truthy(tv)
                     h1 == IF fresh THEN Append(h, <<>>) ELSE h
                     sub == IF fresh THEN Ref(Len(h) + 1) ELSE tv
                     r == mergeDeep(h1, sub, sv)
                 IN  MergeEach(SetProp(r.heap, target, key, r.value), target, source,
                               Tail(keys))
            ELSE MergeEach(SetProp(h, target, key, sv), target, source, Tail(keys))

mergeDeep(h, target, source) == MergeEach(h, target, source, OwnKeys(h[source.ref]))

merge(h, obj1, obj2) == mergeDeep(h, obj1, obj2)

\* The records drawn, as trees: key -> absent, a number or a nested record.
Absent == [absent |-> TRUE]
Nested(t) == [obj |-> t]
IsNested(v) == DOMAIN v = {"obj"}
KeySet == {MergeKeys[i] : i \in 1..Len(MergeKeys)}

RECURSIVE Records(_)
Records(depth) ==
    IF depth <= 1 THEN [KeySet -> {Absent} \cup MergePrimitives]
    ELSE [KeySet -> {Absent} \cup MergePrimitives \cup {Nested(t) : t \in Records(depth - 1)}]

\* The heap with the tree allocated in it, and the reference to its root.
RECURSIVE Allocate(_, _), AllocateEach(_, _, _, _)
AllocateEach(h, a, tree, keys) ==
    IF keys = <<>> THEN [heap |-> h, ref |-> a]
    ELSE
        LET key == Head(keys)
            v == tree[key]
        IN  IF v = Absent THEN AllocateEach(h, a, tree, Tail(keys))
            ELSE IF IsNested(v)
            THEN LET c == Allocate(h, v.obj)
                 IN  AllocateEach([c.heap EXCEPT ![a] = PutOwn(@, key, Ref(c.ref))], a, tree,
                                  Tail(keys))
            ELSE AllocateEach([h EXCEPT ![a] = PutOwn(@, key, v)], a, tree, Tail(keys))

Allocate(h, tree) == AllocateEach(Append(h, <<>>), Len(h) + 1, tree, MergeKeys)

\* The tree a value denotes in a heap.
RECURSIVE TreeOf(_, _)
TreeOf(h, v) ==
    IF IsRef(v)
    THEN Nested([key \in KeySet |->
                    IF HasOwn(h[v.ref], key) THEN TreeOf(h, GetOwn(h[v.ref], key)) ELSE Absent])
    ELSE v

InitMerge ==
    /\ fn = "merge"
    /\ pc = "call"
    /\ \E a, b \in Records(MaxMergeDepth) :
          LET m == Allocate(<<>>, a)
              n == Allocate(m.heap, b)
          IN  /\ heap = n.heap
              /\ args = [obj1 |-> Ref(m.ref), obj2 |-> Ref(n.ref), a |-> a, b |-> b]
    /\ locals = NoLocals
    /\ ret = NoRet

CallMerge ==
    /\ fn = "merge"
    /\ pc = "call"
    /\ LET r == merge(heap, args.obj1, args.obj2)
       IN  /\ heap' = r.heap
           /\ ret' = Return(r.value)
    /\ pc' = "done"
    /\ UNCHANGED <<fn, args, locals>>

NextMerge == CallMerge

SpecMerge == InitMerge /\ [][NextMerge]_vars

MergeDone == fn = "merge" /\ pc = "done"

\* C1: merge(a, b) returns a new record and mutates neither input: after the
\* call a and b, with every record nested in them, hold the keys and values
\* they held before.  (args.a and args.b are the trees a and b were built
\* from.)
C1_MergeMutatesNothing ==
    MergeDone =>
        /\ ret.value \notin {args.obj1, args.obj2}
        /\ TreeOf(heap, args.obj1) = Nested(args.a)
        /\ TreeOf(heap, args.obj2) = Nested(args.b)

\* The merge C2 describes, on trees.
RECURSIVE ClaimedMerge(_, _)
ClaimedMerge(a, b) ==
    [key \in KeySet |->
        IF b[key] = Absent THEN a[key]
        ELSE IF IsNested(a[key]) /\ IsNested(b[key])
        THEN Nested(ClaimedMerge(a[key].obj, b[key].obj))
        ELSE b[key]]

\* C2: for every key k of the result r of merge(a, b): r[k] = a[k] if k is only
\* in a, r[k] = b[k] if k is only in b, r[k] = merge(a[k], b[k]) if a[k] and b[k]
\* are both nested records, and r[k] = b[k] in every other case where k is in b
\* (a[k] a primitive and b[k] a nested record included).
C2_MergeResult ==
    MergeDone => TreeOf(heap, ret.value) = Nested(ClaimedMerge(args.a, args.b))

\* What merge does give: obj1 itself, holding the claimed merge except that a
\* truthy primitive of a is kept where b holds a nested record; b is unchanged.
IsTruthyPrimitive(v) == v \in MergePrimitives /\ Truthy(v)

RECURSIVE MergedInPlace(_, _)
MergedInPlace(a, b) ==
    [key \in KeySet |->
        IF b[key] = Absent THEN a[key]
        ELSE IF IsNested(b[key])
        THEN (IF IsTruthyPrimitive(a[key]) THEN a[key]
              ELSE IF IsNested(a[key]) THEN Nested(MergedInPlace(a[key].obj, b[key].obj))
              ELSE b[key])
        ELSE b[key]]

MergeWritesIntoFirst ==
    MergeDone =>
        /\ ret.value = args.obj1
        /\ TreeOf(heap, args.obj1) = Nested(MergedInPlace(args.a, args.b))
        /\ TreeOf(heap, args.obj2) = Nested(args.b)

(***************************************************************************)
(* The whole catalog: one call of any helper                               *)
(***************************************************************************)
Init ==
    \/ InitChunk
    \/ InitGroupBy
    \/ InitMerge
    \/ InitOrdinal
    \/ InitRoman
    \/ InitText
    \/ InitAddDays
    \/ InitWeek

Next ==
    \/ NextChunk
    \/ NextGroupBy
    \/ NextMerge
    \/ NextOrdinal
    \/ NextRoman
    \/ NextText
    \/ NextAddDays
    \/ NextWeek

Spec == Init /\ [][Next]_vars

====
